---- MODULE Spec2Model ----
(***************************************************************************)
(* Model of transcript_update_bot.py: one batch run is                     *)
(*   Transcript Sync -> Cross-Sheet Propagation -> Analysis                *)
(* over three external stores (transcript source, document store,         *)
(* spreadsheets).  External calls may fail; the effect of each failure is  *)
(* the one the code's try/except structure gives it.                       *)
(***************************************************************************)
EXTENDS Integers, Sequences, FiniteSets, TLC

----------------------------------------------------------------------------
(* Bounds of the model *)

MaxFetched == 2     \* records fetch_all_transcripts returns, over all runs of main()
MaxPropRows == 9    \* rows of the tracking sheet when a Propagation stage starts on its own
MaxCeiling == 2     \* RateLimiter: largest max_calls explored
MaxPeriod == 4      \* RateLimiter: longest period explored, in seconds
MaxWaits == 4       \* RateLimiter: calls of wait_if_needed
MaxClock == 7       \* RateLimiter: latest time at which the caller acts
MaxLag == 1         \* RateLimiter: seconds a sleep overruns, or that pass inside a call
MaxUtterances == 2   \* utterances of a transcript whose classification is computed alone
MaxVaried == 2      \* fields of an analysis whose value differs from the others'
MaxSheetRows == 3   \* rows of the tracking sheet when Propagation and Analysis run on their own
MaxFailures == 1    \* loop iterations with a failing external call, over all runs

(* Program constants *)

DefaultMaxRetries == 5      \* max_retries=5
FlushThreshold == 40        \* len(all_updates) >= 40
ScanWindow == 1000          \* t_ids[-1000:]
ConductedMinutes == 10      \* meeting_duration > 10.0
ConductedTextLen == 10      \* len(t_complete_text) > 10
SleepMargin == 2            \* sleep_time = ... + 2
DefaultMaxCalls == 45       \* RateLimiter(max_calls=45, ...)
DefaultPeriod == 60         \* RateLimiter(..., period=60)
DefaultLimit == 50          \* fetch_all_transcripts(limit=50)
HardCap == 500              \* len(all_transcripts) > 500

----------------------------------------------------------------------------
(* Generic helpers (Python list operations the code uses) *)

Range(s) == {s[k] : k \in DOMAIN s}

Min(a, b) == IF a < b THEN a ELSE b

index_of_last(list, x) == (CHOOSE k \in DOMAIN list : list[k] = x /\ \A m \in (k+1)..Len(list) : list[m] # x) - 1

\* list.index(x): 0-based position of the first element equal to x
index(list, x) == (CHOOSE k \in DOMAIN list : list[k] = x /\ \A m \in 1..(k-1) : list[m] # x) - 1

\* list[-n:]
LastN(list, n) == SubSeq(list, Len(list) - Min(n, Len(list)) + 1, Len(list))

RECURSIVE Pow2(_)
Pow2(n) == IF n = 0 THEN 1 ELSE 2 * Pow2(n - 1)

----------------------------------------------------------------------------
(* The transcript source (Fireflies).  A record is {id, calendar_id,       *)
(* title, sentences}; an utterance is reduced to its start_time, end_time  *)
(* (seconds) and the length of its text.                                   *)

TranscriptIds == {"t1", "t2"}

\* Meeting_data!A2:A : the calendar ids of the master rows (sheet rows 2, 3, 4);
\* the event of row 3 is entered a second time in row 4
MasterCalendar == << "calB", "calA", "calA" >>

\* The calendar events of the transcripts: t1 records the meeting of sheet
\* row 3 and t2 is a second recording of the same meeting.
Sources == {[t \in TranscriptIds |-> IF t = "t1" THEN "calA" ELSE c] : c \in {"calA"}}

SentencesOf(t) ==
    IF t = "t1" THEN << [start_time |-> 0, end_time |-> 400, text_len |-> 30],
                        [start_time |-> 400, end_time |-> 900, text_len |-> 30] >>
    ELSE << [start_time |-> 0, end_time |-> 600, text_len |-> 11] >>

MasterRows == 2..(Len(MasterCalendar) + 1)

\* outcomes of one remote call of the Sheets API
Responses == {"ok", "throttled", "http_error", "exception"}

NoUrl == [doc |-> 0, view |-> FALSE]

\* no pure function is under test
NoFn == [fn |-> "none"]

----------------------------------------------------------------------------
VARIABLES
    calendar_of,    \* source: calendar_id of every transcript
    missing_headers, \* sheets: the required headers that row 1 of a sheet lacks
    ready,          \* source: transcripts whose sentences are available
    docs,           \* document store: the archive folder, doc id = position
    tracking,       \* tracking sheet Sheet1!A2:G
    master,         \* Meeting_data, by sheet row
    audit,          \* Audit_and_Training, by sheet row
    pc,             \* position of main(): idle, sync, prop, analysis
    transcripts,    \* main: list returned by fetch_all_transcripts
    i,              \* main: position in the Sync loop (1-based)
    transcript_ids, \* main: Sheet1!C2:C as read once before the Sync loop
    ts_dict,        \* main: tracking rows as read at the start of Propagation
    transcript_urls_from_master, \* main: Meeting_data!I2:I as last read
    all_updates,    \* main: the Batch Accumulator's queued range updates
    t_ids,          \* main: the Analysis candidates
    j,              \* main: position in the Propagation / Analysis loop
    fetched,        \* records fetched so far, over all runs
    fails,          \* iterations with a failing external call so far
    ev,             \* the external calls of the last step and their outcomes
    sync_log,       \* what the Sync stage of the current run has done
    rerun,          \* how this run relates to the previous one
    analysis_written, \* docs whose analysis bulk write was confirmed
    flag_synced,    \* docs whose Analysis-stage owner-flag write was confirmed
    gated,          \* docs an Analysis iteration skipped (empty text / model failure)
    url_writes,     \* per master row: writes of its archive_url cell by Propagation
    flushes,        \* the bulk writes the Propagation stage has issued, in order
    queued,         \* the range updates the Propagation stage has queued, in order
    crash,          \* a killed run and the run that follows it
    skipped,        \* ids of the records a Sync stage skipped as still processing
    w_in,           \* retry harness: the call under test
    w_out,          \* retry harness: its result
    call_in,        \* a pure function of the program: the call under test
    call_out,       \* a pure function of the program: its result
    limiter,        \* a RateLimiter: max_calls, period, calls
    clock,          \* time.time(), in seconds
    limiter_log     \* what the calls of wait_if_needed did

vars == << calendar_of, missing_headers, ready, docs, tracking, master, audit, pc, transcripts, i, transcript_ids,
           ts_dict, transcript_urls_from_master, all_updates, t_ids, j, fetched, fails,
           ev, sync_log, rerun, analysis_written, flag_synced, gated, url_writes,
           flushes, queued, crash, skipped,
           w_in, w_out, call_in, call_out, limiter, clock, limiter_log >>

stores == << calendar_of, missing_headers, ready, docs, tracking, master, audit >>
locals == << transcripts, i, transcript_ids, ts_dict, transcript_urls_from_master,
             all_updates, t_ids, j >>
ghosts == << sync_log, rerun, analysis_written, flag_synced, gated, url_writes,
             flushes, queued, crash, skipped >>
harness == << w_in, w_out, call_in, call_out, limiter, clock, limiter_log >>

----------------------------------------------------------------------------
(* Retrying writers *)

BackoffDelay_no_offset(attempt) == Pow2(attempt)

\* wait_time = (2 ** attempt) + 1
BackoffDelay(attempt) == Pow2(attempt) + 1

\* for attempt in range(max_retries): try ... except HttpError ...
\* resp[k] is what the k-th remote call (1-based) answers.
RECURSIVE RetryLoop(_, _, _, _)
RetryLoop(resp, max_retries, attempt, delays) ==
    IF attempt >= max_retries
    THEN [ok |-> FALSE, raised |-> FALSE, calls |-> attempt, delays |-> delays]
    ELSE IF resp[attempt + 1] = "ok"
    THEN [ok |-> TRUE, raised |-> FALSE, calls |-> attempt + 1, delays |-> delays]
    ELSE IF resp[attempt + 1] = "throttled"
    THEN RetryLoop(resp, max_retries, attempt + 1, Append(delays, BackoffDelay(attempt)))
    ELSE IF resp[attempt + 1] = "http_error"
    THEN [ok |-> FALSE, raised |-> FALSE, calls |-> attempt + 1, delays |-> delays]
    ELSE [ok |-> FALSE, raised |-> TRUE, calls |-> attempt + 1, delays |-> delays]

NoCall == [ok |-> FALSE, raised |-> FALSE, calls |-> 0, delays |-> << >>]

write_with_retry(resp, max_retries) == RetryLoop(resp, max_retries, 0, << >>)

\* "if not updates_list: return None" is the first statement of every attempt
batch_write_multiple_ranges(updates_list, resp, max_retries) ==
    IF max_retries > 0 /\ updates_list = << >>
    THEN NoCall
    ELSE RetryLoop(resp, max_retries, 0, << >>)

\* "if not values1 or not values2: return None"
batch_write_two_ranges_with_retry(values1, values2, resp, max_retries) ==
    IF max_retries > 0 /\ (values1 = << >> \/ values2 = << >>)
    THEN NoCall
    ELSE RetryLoop(resp, max_retries, 0, << >>)

\* the wrapper main() calls: the retrying writer with its default max_retries
batch_write_two_ranges(values1, values2, resp) ==
    batch_write_two_ranges_with_retry(values1, values2, resp, DefaultMaxRetries)

----------------------------------------------------------------------------
(* fetch_all_transcripts: the paging loop; of the list only the length is kept *)

\* sizes of the page the source may return for one request: empty, partly
\* filled, full
PageSizes(limit) == {0, limit \div 2, limit}

\* "if len(all_transcripts) > 500: break"
cap_reached(length) == length > HardCap

FetchStart(limit) ==
    [fn |-> "fetch_all_transcripts", limit |-> limit, all_transcripts |-> 0, skip |-> 0,
     requests |-> 0, returned |-> FALSE, raised |-> FALSE]

\* one iteration of "while True": the request succeeds and returns `batch`
FetchPage(batch) ==
    /\ call_out.fn = "fetch_all_transcripts" /\ ~call_out.returned
    /\ call_out' =
         IF batch = 0
         THEN [call_out EXCEPT !.requests = @ + 1, !.returned = TRUE]
         ELSE [call_out EXCEPT !.requests = @ + 1,
                               !.all_transcripts = @ + batch,
                               !.skip = @ + call_out.limit,
                               !.returned = cap_reached(call_out.all_transcripts + batch)]
    /\ UNCHANGED << stores, pc, locals, fetched, fails, ev, ghosts, w_in, w_out, call_in,
                    limiter, clock, limiter_log >>

\* one iteration in which r.raise_for_status() raises or the answer holds
\* "errors": the function ends with the exception
FetchRaises ==
    /\ call_out.fn = "fetch_all_transcripts" /\ ~call_out.returned
    /\ call_out' = [call_out EXCEPT !.requests = @ + 1, !.returned = TRUE, !.raised = TRUE]
    /\ UNCHANGED << stores, pc, locals, fetched, fails, ev, ghosts, w_in, w_out, call_in,
                    limiter, clock, limiter_log >>

----------------------------------------------------------------------------
(* Transcript Sync stage: pure parts *)

\* complete_transcript: every utterance adds a "Time (in seconds): a to b\n"
\* header line and a "speaker: text\n\n" line; only the length is kept.
\* The header line has 24 characters besides the two numbers.
HeaderLen == 24

RECURSIVE complete_transcript(_)
complete_transcript(sentences) ==
    IF sentences = << >> THEN 0
    ELSE HeaderLen + sentences[1].text_len + complete_transcript(Tail(sentences))

meeting_conducted_at_least(sentences) ==
    IF /\ sentences[Len(sentences)].end_time - sentences[1].start_time >= ConductedMinutes * 60
       /\ complete_transcript(sentences) > ConductedTextLen
    THEN "Conducted"
    ELSE "Not Conducted"

\* meeting_duration > 10.0 (minutes) and len(t_complete_text) > 10
meeting_conducted(sentences) ==
    IF /\ sentences[Len(sentences)].end_time - sentences[1].start_time > ConductedMinutes * 60
       /\ complete_transcript(sentences) > ConductedTextLen
    THEN "Conducted"
    ELSE "Not Conducted"

\* the Sync loop body up to the classification, for one record with sentences
Classify ==
    /\ call_in.fn = "meeting_conducted" /\ call_out = NoFn
    /\ call_out' = [fn |-> "meeting_conducted",
                    t_complete_text |-> complete_transcript(call_in.sentences),
                    meeting_conducted |-> meeting_conducted(call_in.sentences)]
    /\ UNCHANGED << stores, pc, locals, fetched, fails, ev, ghosts, w_in, w_out, call_in,
                    limiter, clock, limiter_log >>

\* a record as the source returns it; sentences are empty until transcribed
FetchedRecord(t, rdy) ==
    [id |-> t, calendar_id |-> calendar_of[t],
     sentences |-> IF t \in rdy THEN SentencesOf(t) ELSE << >>]

still_processing_always(t) == TRUE

\* "if t_sentences is None or not t_sentences: continue"
still_processing(t) == t.sentences = << >>

already_recorded_never(t_id, ids) == FALSE

\* "if [t_id] in transcript_ids: continue"
already_recorded(t_id, ids) == t_id \in ids

\* get_doc_with_t_id: files[0] of the docs tagged with the transcript id, or 0
get_doc_with_t_id(store, t_id) ==
    LET files == {d \in DOMAIN store : store[d].transcript_id = t_id}
    IN  IF files # {} THEN CHOOSE d \in files : \A e \in files : d <= e ELSE 0

\* webViewLink of a found doc / f"https://docs.google.com/document/d/{doc_id}"
ViewLink(doc_id) == [doc |-> doc_id, view |-> TRUE]
DocUrl(doc_id) == [doc |-> doc_id, view |-> FALSE]

\* url.split('/')[5]
DocIdOfUrl(url) == url.doc

\* create_google_doc_in_folder: files().create, documents().batchUpdate and
\* files().update in one try; the first failing step ends it, and doc_id was
\* already assigned once files().create returned.
CreateOutcomes == {"ok", "create_failed", "body_failed", "tag_failed"}

create_google_doc_in_folder(store, t, outcome) ==
    IF outcome = "create_failed"
    THEN [store |-> store, doc_id |-> 0]
    ELSE [store |-> Append(store, [name |-> t.id,
                                   body |-> outcome \in {"ok", "tag_failed"},
                                   transcript_id |-> IF outcome = "ok" THEN t.id ELSE "none",
                                   processed |-> FALSE]),
          doc_id |-> Len(store) + 1]

\* data_ts_sheet = [[t_event_id, t_title, t_id, doc_url, ff_url, meeting_duration, meeting_conducted]]
TrackingRow(t, doc_url) ==
    [calendar_id |-> t.calendar_id, transcript_id |-> t.id, transcript_url |-> doc_url,
     meeting_conducted |-> meeting_conducted(t.sentences)]

----------------------------------------------------------------------------
(* Steps of main() *)

NoEv == [kind |-> "none", doc |-> 0, text |-> "not_read", model |-> "not_called",
         write |-> "not_issued", tag |-> "not_issued", flag |-> "not_issued",
         was_processed |-> FALSE, flush |-> "not_issued"]

\* no run has been killed
NoCrash == [phase |-> "none", fails_at |-> 0]

NoLog == [fetched |-> {}, appended |-> FALSE, append_failed |-> FALSE, create_failed |-> FALSE,
          done |-> FALSE, append_calls |-> 0]

\* main() has returned or has ended with an exception
Idle ==
    /\ pc' = "idle"
    /\ transcripts' = << >> /\ i' = 0 /\ transcript_ids' = {} /\ ts_dict' = << >>
    /\ transcript_urls_from_master' = << >> /\ all_updates' = << >> /\ t_ids' = << >>
    /\ j' = 0

FetchLists(n) == UNION {[1..m -> TranscriptIds] : m \in 0..n}

\* Source side: the transcription of t completes between two runs.
TranscriptionCompletes(t) ==
    /\ pc = "idle" /\ t \notin ready
    /\ ready' = ready \cup {t}
    /\ UNCHANGED << calendar_of, missing_headers, docs, tracking, master, audit, pc, locals, fetched, fails,
                    ev, ghosts, harness >>

\* The relation of a run that fetches `records` to the run before it: the
\* same records were fetched, the earlier Sync stage ran to its end, and none
\* of its appends ("appends_ok") or of its appends and document creations
\* ("all_ok") failed.
Rerun(records) ==
    IF sync_log.done /\ ~sync_log.append_failed
       /\ Range(records) = sync_log.fetched
    THEN IF sync_log.create_failed THEN "appends_ok" ELSE "all_ok"
    ELSE "no"

\* the headers main() looks up with .index(...) before the first stage
SetupHeaders ==
    {<< "Meeting_data", "Owner" >>, << "Meeting_data", "Owner sheet to be updated" >>,
     << "Audit_and_Training", "Owner" >>, << "Audit_and_Training", "Owner sheet to be updated" >>}

\* master_sheet_column_headers.index("Meeting Done"), looked up in the Propagation loop
StatusHeader == << "Meeting_data", "Meeting Done" >>

\* list.index raises ValueError for a header that is not in row 1
setup_fails(missing) == missing \cap SetupHeaders # {}

\* main(), up to the Sync loop: fetch, setup, read Sheet1!C2:C once,
\* "if not transcripts: return".
RunStart(list) ==
    /\ pc = "idle"
    /\ fetched' = fetched + Len(list)
    /\ rerun' = Rerun([k \in DOMAIN list |-> FetchedRecord(list[k], ready)])
    /\ sync_log' = [NoLog EXCEPT !.fetched = {FetchedRecord(list[k], ready) : k \in DOMAIN list}]
    /\ ev' = [NoEv EXCEPT !.kind = IF setup_fails(missing_headers) THEN "setup_failed"
                                   ELSE "start"]
    /\ IF setup_fails(missing_headers) \/ list = << >>
       THEN Idle
       ELSE /\ pc' = "sync"
            /\ transcripts' = [k \in DOMAIN list |-> FetchedRecord(list[k], ready)]
            /\ transcript_ids' = {tracking[k].transcript_id : k \in DOMAIN tracking}
            /\ i' = 1
            /\ UNCHANGED << ts_dict, transcript_urls_from_master, all_updates, t_ids, j >>
    /\ crash' = IF crash.phase = "killed"
                    /\ Range([k \in DOMAIN list |-> FetchedRecord(list[k], ready)]) = sync_log.fetched
                    /\ list # << >> /\ ~setup_fails(missing_headers)
                 THEN [phase |-> "resuming", fails_at |-> fails]
                 ELSE NoCrash
    /\ UNCHANGED << stores, fails, analysis_written, flag_synced, gated, url_writes,
                    flushes, queued, skipped, harness >>

\* Sync loop, one record: the two "continue"s before any external call.
SyncSkip ==
    /\ pc = "sync" /\ i <= Len(transcripts)
    /\ \/ still_processing(transcripts[i])
       \/ already_recorded(transcripts[i].id, transcript_ids)
    /\ i' = i + 1
    /\ ev' = [NoEv EXCEPT !.kind = "sync_skip"]
    /\ skipped' = IF still_processing(transcripts[i])
                   THEN skipped \cup {transcripts[i].id} ELSE skipped
    /\ UNCHANGED << stores, pc, transcripts, transcript_ids, ts_dict,
                    transcript_urls_from_master, all_updates, t_ids, j, fetched, fails,
                    sync_log, rerun, analysis_written, flag_synced, gated, url_writes,
                    flushes, queued, crash, harness >>

\* get_doc_with_t_id raises (it has no try): main() ends with the exception.
SyncLookupRaises ==
    /\ pc = "sync" /\ i <= Len(transcripts)
    /\ ~still_processing(transcripts[i])
    /\ ~already_recorded(transcripts[i].id, transcript_ids)
    /\ fails < MaxFailures
    /\ fails' = fails + 1
    /\ Idle
    /\ ev' = [NoEv EXCEPT !.kind = "sync_raised"]
    /\ UNCHANGED << stores, fetched, ghosts, harness >>

\* Sync loop, one record that is to be recorded: find or create the doc,
\* then append the row (a failing append is swallowed by the bare except).
SyncRecord(outcome, append_ok) ==
    /\ pc = "sync" /\ i <= Len(transcripts)
    /\ LET t == transcripts[i]
           found == get_doc_with_t_id(docs, t.id)
           made == IF found # 0 THEN [store |-> docs, doc_id |-> found]
                   ELSE create_google_doc_in_folder(docs, t, outcome)
           doc_url == IF found # 0 THEN ViewLink(found) ELSE DocUrl(made.doc_id)
           nfail == IF (found = 0 /\ outcome # "ok") \/ (made.doc_id # 0 /\ ~append_ok)
                    THEN 1 ELSE 0
       IN
       /\ ~still_processing(t)
       /\ ~already_recorded(t.id, transcript_ids)
       /\ found # 0 => outcome = "ok"
       /\ made.doc_id = 0 => append_ok
       /\ fails + nfail <= MaxFailures
       /\ fails' = fails + nfail
       /\ docs' = made.store
       /\ tracking' = IF made.doc_id # 0 /\ append_ok
                      THEN Append(tracking, TrackingRow(t, doc_url))
                      ELSE tracking
       /\ sync_log' = [sync_log EXCEPT
                         !.appended = @ \/ (made.doc_id # 0 /\ append_ok),
                         !.append_failed = @ \/ (made.doc_id # 0 /\ ~append_ok),
                         !.create_failed = @ \/ (made.doc_id = 0),
                         !.append_calls = @ + (IF made.doc_id # 0 THEN 1 ELSE 0)]
       /\ ev' = [NoEv EXCEPT !.kind = "sync_record", !.doc = made.doc_id]
    /\ i' = i + 1
    /\ UNCHANGED << calendar_of, missing_headers, ready, master, audit, pc, transcripts, transcript_ids,
                    ts_dict, transcript_urls_from_master, all_updates, t_ids, j, fetched,
                    rerun, analysis_written, flag_synced, gated, url_writes, flushes,
                    queued, crash, skipped, harness >>

----------------------------------------------------------------------------
(* Spreadsheet cells *)

\* Meeting_data!I2:I as values().get returns it: one entry per row from row 2
\* on, trailing empty rows left out.
RECURSIVE TrimTrailing(_)
TrimTrailing(col) ==
    IF col # << >> /\ col[Len(col)] = NoUrl
    THEN TrimTrailing(SubSeq(col, 1, Len(col) - 1))
    ELSE col

ReadUrlColumn(m) == TrimTrailing([k \in 1..Len(MasterCalendar) |-> m[k + 1].IJ])

\* values().batchUpdate: the ranges of one call are written in order
RECURSIVE ApplyUpdates(_, _, _)
ApplyUpdates(sheet, name, updates) ==
    IF updates = << >> THEN sheet
    ELSE LET u == updates[1]
         IN  ApplyUpdates(IF u.sheet = name
                          THEN [sheet EXCEPT ![u.row][u.col] = u.values]
                          ELSE sheet,
                          name, Tail(updates))

Update(sheet, col, row, values) == [sheet |-> sheet, col |-> col, row |-> row, values |-> values]

\* number of writes of Meeting_data!I{row} in a list of range updates
RECURSIVE UrlWritesIn(_, _)
UrlWritesIn(updates, row) ==
    IF updates = << >> THEN 0
    ELSE (IF updates[1].sheet = "Meeting_data" /\ updates[1].col = "IJ" /\ updates[1].row = row
          THEN 1 ELSE 0) + UrlWritesIn(Tail(updates), row)

\* what the Sheets API answers to the calls of one write, as the model explores it
ResponsePatterns ==
    {[k \in 1..DefaultMaxRetries |-> r] : r \in Responses}
    \cup {[k \in 1..DefaultMaxRetries |-> IF k = 1 THEN "throttled" ELSE "ok"]}

----------------------------------------------------------------------------
(* Cross-Sheet Propagation stage *)

\* "Sync loop over": read Sheet1!A2:G into ts_dict, Meeting_data!I2:I and A2:A.
\* The locals of the Sync loop are not read again and are dropped.
StartPropagation ==
    /\ pc = "sync" /\ i > Len(transcripts)
    /\ pc' = "prop"
    /\ transcripts' = << >> /\ i' = 0 /\ transcript_ids' = {}
    /\ ts_dict' = tracking
    /\ transcript_urls_from_master' = ReadUrlColumn(master)
    /\ all_updates' = << >>
    /\ j' = 1
    /\ sync_log' = [sync_log EXCEPT !.done = TRUE]
    /\ flushes' = << >> /\ queued' = << >>
    /\ ev' = [NoEv EXCEPT !.kind = "start_prop"]
    /\ UNCHANGED << stores, t_ids, fetched, fails,
                    rerun, analysis_written, flag_synced, gated, url_writes, crash, skipped, harness >>

\* "if [url] in transcript_urls_from_master: continue"
already_propagated(url, urls) == url \in Range(urls)

\* the four or five range updates queued for one matched tracking row
QueuedFor(t, row) ==
    << Update("Meeting_data", "IJ", row, t.transcript_url),
       Update("Audit_and_Training", "IJ", row, t.transcript_url),
       Update("Meeting_data", "owner_update", row, "TRUE"),
       Update("Audit_and_Training", "owner_update", row, "TRUE") >>
    \o (IF t.meeting_conducted # ""
        THEN << Update("Meeting_data", "meeting_done", row, t.meeting_conducted) >>
        ELSE << >>)

\* the body of "for t in ts_dict" up to the threshold test: the new queue
Enqueue(queue, t, urls) ==
    IF already_propagated(t.transcript_url, urls) THEN queue
    ELSE IF t.calendar_id \in Range(MasterCalendar)
    THEN queue \o QueuedFor(t, index(MasterCalendar, t.calendar_id) + 2)
    ELSE queue

flush_due_never(queue) == FALSE

\* "if len(all_updates) >= 40"
flush_due(queue) == Len(queue) >= FlushThreshold

\* one bulk write of the queue: the sheets afterwards
Flush(queue, result) ==
    IF result.ok
    THEN [master |-> ApplyUpdates(master, "Meeting_data", queue),
          audit |-> ApplyUpdates(audit, "Audit_and_Training", queue),
          url_writes |-> [r \in MasterRows |-> url_writes[r] + UrlWritesIn(queue, r)]]
    ELSE [master |-> master, audit |-> audit, url_writes |-> url_writes]

\* "if meeting_done:" of a row that is being queued, with the "Meeting Done"
\* header missing: .index raises ValueError and main() ends
status_lookup_raises(t, urls, missing) ==
    /\ ~already_propagated(t.transcript_url, urls)
    /\ t.calendar_id \in Range(MasterCalendar)
    /\ t.meeting_conducted # ""
    /\ StatusHeader \in missing

\* how a bulk write call ended, as the stage sees it
FlushOutcome(result) ==
    IF result.ok THEN "ok" ELSE IF result.raised THEN "raised" ELSE "failed"

\* "all_updates = []" after a threshold flush, whatever `success` is
after_flush(queue, result) == << >>

\* Propagation loop, one tracking row, with the threshold flush
PropagateRow(resp) ==
    /\ pc = "prop" /\ j <= Len(ts_dict)
    /\ LET queue == Enqueue(all_updates, ts_dict[j], transcript_urls_from_master)
           grew == queue # all_updates
           result == batch_write_multiple_ranges(queue, resp, DefaultMaxRetries)
           after == Flush(queue, result)
       IN  IF status_lookup_raises(ts_dict[j], transcript_urls_from_master, missing_headers)
           THEN /\ resp = [k \in 1..DefaultMaxRetries |-> "ok"]
                /\ Idle
                /\ ev' = [NoEv EXCEPT !.kind = "propagate_raised"]
                /\ UNCHANGED << master, audit, url_writes, flushes, queued, fails >>
           ELSE
           /\ queued' = queued \o SubSeq(queue, Len(all_updates) + 1, Len(queue))
           /\ IF grew /\ flush_due(queue)
              THEN /\ fails + (IF result.ok THEN 0 ELSE 1) <= MaxFailures
                   /\ fails' = fails + (IF result.ok THEN 0 ELSE 1)
                   /\ master' = after.master /\ audit' = after.audit
                   /\ url_writes' = after.url_writes
                   /\ flushes' = Append(flushes, [ranges |-> queue, ok |-> result.ok,
                                                  at |-> "threshold"])
                   /\ ev' = [NoEv EXCEPT !.kind = "propagate", !.flush = FlushOutcome(result)]
                   /\ IF result.raised
                      THEN Idle
                      ELSE /\ all_updates' = after_flush(queue, result)
                           /\ j' = j + 1
                           /\ UNCHANGED << pc, transcripts, i, transcript_ids, ts_dict,
                                           transcript_urls_from_master, t_ids >>
              ELSE /\ resp = [k \in 1..DefaultMaxRetries |-> "ok"]
                   /\ all_updates' = queue
                   /\ j' = j + 1
                   /\ ev' = [NoEv EXCEPT !.kind = "propagate"]
                   /\ UNCHANGED << master, audit, url_writes, flushes, fails, pc, transcripts,
                                   i, transcript_ids, ts_dict, transcript_urls_from_master,
                                   t_ids >>
    /\ UNCHANGED << calendar_of, missing_headers, ready, docs, tracking, fetched, sync_log, rerun, crash, skipped,
                    analysis_written, flag_synced, gated, harness >>

\* "sheet_index = ...index(t) if t in ... else None; if sheet_index:"
is_candidate(url, urls) == url \in Range(urls) /\ index(urls, url) # 0

\* the candidates built from Sheet1!D2:D and Meeting_data!I2:I
RECURSIVE Candidates(_, _)
Candidates(rows, urls) ==
    IF rows = << >> THEN << >>
    ELSE (IF is_candidate(rows[1].transcript_url, urls)
          THEN << [id |-> DocIdOfUrl(rows[1].transcript_url),
                   sheet_index |-> index(urls, rows[1].transcript_url) + 2] >>
          ELSE << >>) \o Candidates(Tail(rows), urls)

final_flush_never(queue) == FALSE

\* "if all_updates:" before the end-of-stage flush
final_flush_due(queue) == queue # << >>

\* the end-of-stage flush, then the reads that open the Analysis stage
FinishPropagation(resp) ==
    /\ pc = "prop" /\ j > Len(ts_dict)
    /\ LET issued == final_flush_due(all_updates)
           result == batch_write_multiple_ranges(all_updates, resp, DefaultMaxRetries)
           after == IF issued THEN Flush(all_updates, result)
                    ELSE [master |-> master, audit |-> audit, url_writes |-> url_writes]
           failed == issued /\ ~result.ok
       IN  /\ ~issued => resp = [k \in 1..DefaultMaxRetries |-> "ok"]
           /\ fails + (IF failed THEN 1 ELSE 0) <= MaxFailures
           /\ fails' = fails + (IF failed THEN 1 ELSE 0)
           /\ master' = after.master /\ audit' = after.audit
           /\ url_writes' = after.url_writes
           /\ flushes' = IF issued
                         THEN Append(flushes, [ranges |-> all_updates, ok |-> result.ok,
                                               at |-> "final"])
                         ELSE flushes
           /\ ev' = [NoEv EXCEPT !.kind = "finish_prop",
                                 !.flush = IF issued THEN FlushOutcome(result)
                                           ELSE "not_issued"]
           /\ IF issued /\ result.raised
              THEN Idle
              ELSE /\ pc' = "analysis"
                   /\ transcript_urls_from_master' = ReadUrlColumn(after.master)
                   /\ t_ids' = Candidates(tracking, ReadUrlColumn(after.master))
                   /\ j' = 1
                   /\ UNCHANGED << transcripts, i, transcript_ids, ts_dict, all_updates >>
    /\ UNCHANGED << calendar_of, missing_headers, ready, docs, tracking, fetched, sync_log, rerun, crash, skipped,
                    analysis_written, flag_synced, gated, queued, harness >>

----------------------------------------------------------------------------
(* Analysis stage *)

\* "for t in t_ids[-1000:]"
Window == LastN(t_ids, ScanWindow)

needs_analysis_always(processed) == TRUE

\* "processed = file.get('appProperties').get('processed', None); if not processed:"
needs_analysis(processed) == ~processed

analysis_usable_always(text_empty, model) == TRUE

\* "if not transcript_text: continue" and "if analysis is None: continue";
\* get_gemini_response_json returns None on a validation or transport error
analysis_usable(text_empty, model) == ~text_empty /\ model = "ok"

should_tag_always(result) == TRUE

\* "success = batch_write_multiple_ranges(...); if success:"
should_tag(result) == result.ok

\* updates = [rng_existing, rng_audit, rng_new], values of the analysis of doc_id
AnalysisUpdates(doc_id, sheet_index) ==
    << Update("Meeting_data", "K_AF", sheet_index, doc_id),
       Update("Audit_and_Training", "K_X", sheet_index, doc_id),
       Update("Meeting_data", "AN_BF", sheet_index, doc_id) >>

\* rng / audit_rnge of the owner-flag reset, data = [["TRUE"]]
FlagUpdates(sheet_index) ==
    << Update("Meeting_data", "owner_update", sheet_index, "TRUE"),
       Update("Audit_and_Training", "owner_update", sheet_index, "TRUE") >>

ModelOutcomes == {"ok", "validation", "transport"}

AllOk == [k \in 1..DefaultMaxRetries |-> "ok"]

\* files().get or read_doc_text raises (neither is in a try): main() ends
AnalysisReadRaises ==
    /\ pc = "analysis" /\ j <= Len(Window)
    /\ fails < MaxFailures
    /\ fails' = fails + 1
    /\ Idle
    /\ ev' = [NoEv EXCEPT !.kind = "analysis_raised", !.doc = Window[j].id,
                          !.was_processed = docs[Window[j].id].processed]
    /\ UNCHANGED << stores, fetched, ghosts, harness >>

\* Analysis loop, one candidate: the processed tag is read, and a candidate
\* that needs analysis has its text read and the model called; the analysis
\* is written by one bulk write; on success the doc is tagged and the owner
\* flags are written by a second bulk write.
AnalyseCandidate(model, resp, tag_ok, resp2) ==
    /\ pc = "analysis" /\ j <= Len(Window)
    /\ LET doc_id == Window[j].id
           sheet_index == Window[j].sheet_index
           processed == docs[doc_id].processed
           text_empty == ~docs[doc_id].body
           analysed == needs_analysis(processed)
           called == analysed /\ ~text_empty
           usable == analysed /\ analysis_usable(text_empty, model)
           updates == AnalysisUpdates(doc_id, sheet_index)
           result == batch_write_multiple_ranges(updates, resp, DefaultMaxRetries)
           wrote == usable /\ result.ok
           tagging == usable /\ ~result.raised /\ should_tag(result)
           tagged == tagging /\ tag_ok
           result2 == batch_write_two_ranges(<< "TRUE" >>, << "TRUE" >>, resp2)
           flagged == tagged /\ result2.ok
           raised == \/ usable /\ result.raised
                     \/ tagging /\ ~tag_ok
                     \/ tagged /\ result2.raised
           nfail == (IF called /\ model # "ok" THEN 1 ELSE 0)
                    + (IF usable /\ ~result.ok THEN 1 ELSE 0)
                    + (IF tagging /\ ~tag_ok THEN 1 ELSE 0)
                    + (IF tagged /\ ~result2.ok THEN 1 ELSE 0)
       IN
       \* choices that are not consulted are fixed
       /\ ~called => model = "ok"
       /\ ~usable => resp = AllOk
       /\ ~tagging => tag_ok
       /\ ~tagged => resp2 = AllOk
       /\ fails + nfail <= MaxFailures
       /\ fails' = fails + nfail
       /\ master' = ApplyUpdates(
                      IF wrote THEN ApplyUpdates(master, "Meeting_data", updates) ELSE master,
                      "Meeting_data",
                      IF flagged THEN FlagUpdates(sheet_index) ELSE << >>)
       /\ audit' = ApplyUpdates(
                      IF wrote THEN ApplyUpdates(audit, "Audit_and_Training", updates) ELSE audit,
                      "Audit_and_Training",
                      IF flagged THEN FlagUpdates(sheet_index) ELSE << >>)
       /\ docs' = IF tagged THEN [docs EXCEPT ![doc_id].processed = TRUE] ELSE docs
       /\ analysis_written' = IF wrote THEN analysis_written \cup {doc_id} ELSE analysis_written
       /\ flag_synced' = IF flagged THEN flag_synced \cup {doc_id} ELSE flag_synced
       /\ gated' = IF analysed /\ ~usable THEN gated \cup {doc_id} ELSE gated
       /\ ev' = [kind |-> "analyse", doc |-> doc_id,
                 text |-> IF ~analysed THEN "not_read" ELSE IF text_empty THEN "empty" ELSE "ok",
                 model |-> IF called THEN model ELSE "not_called",
                 write |-> IF ~usable THEN "not_issued"
                           ELSE IF result.ok THEN "ok"
                           ELSE IF result.raised THEN "raised" ELSE "failed",
                 tag |-> IF ~tagging THEN "not_issued" ELSE IF tag_ok THEN "ok" ELSE "raised",
                 flag |-> IF ~tagged THEN "not_issued"
                          ELSE IF result2.ok THEN "ok"
                          ELSE IF result2.raised THEN "raised" ELSE "failed",
                 was_processed |-> processed, flush |-> "not_issued"]
       /\ IF raised
          THEN Idle
          ELSE /\ j' = j + 1
               /\ UNCHANGED << pc, transcripts, i, transcript_ids, ts_dict,
                               transcript_urls_from_master, all_updates, t_ids >>
    /\ UNCHANGED << calendar_of, missing_headers, ready, tracking, fetched, sync_log, rerun, crash, skipped, url_writes,
                    flushes, queued, harness >>

\* the Analysis loop is over: main() returns
FinishAnalysis ==
    /\ pc = "analysis" /\ j > Len(Window)
    /\ Idle
    /\ ev' = [NoEv EXCEPT !.kind = "finish"]
    /\ crash' = IF crash.phase = "resuming"
                 THEN IF fails = crash.fails_at
                      THEN [crash EXCEPT !.phase = "resumed"] ELSE NoCrash
                 ELSE crash
    /\ UNCHANGED << stores, fetched, fails, sync_log, rerun, analysis_written, flag_synced,
                    gated, url_writes, flushes, queued, skipped, harness >>

\* The process is killed: main() stops where it is. Between two iterations
\* nothing is half done; inside create_google_doc_in_folder the calls that
\* returned have taken effect and the row is not appended; inside an Analysis
\* iteration the bulk write, or the bulk write and the processed tag, have
\* taken effect.
KillPoints == {"between_steps", "after_create", "after_body", "after_tag",
               "after_analysis_write", "after_processed_tag"}

Killed(point) ==
    /\ pc # "idle"
    /\ crash.phase = "none" /\ fails = 0
    /\ IF point \in {"after_create", "after_body", "after_tag"}
       THEN /\ pc = "sync" /\ i <= Len(transcripts)
            /\ ~still_processing(transcripts[i])
            /\ ~already_recorded(transcripts[i].id, transcript_ids)
            /\ get_doc_with_t_id(docs, transcripts[i].id) = 0
            /\ docs' = create_google_doc_in_folder(docs, transcripts[i],
                          CASE point = "after_create" -> "body_failed"
                            [] point = "after_body" -> "tag_failed"
                            [] OTHER -> "ok").store
            /\ UNCHANGED << master, audit, analysis_written >>
       ELSE IF point \in {"after_analysis_write", "after_processed_tag"}
       THEN /\ pc = "analysis" /\ j <= Len(Window)
            /\ needs_analysis(docs[Window[j].id].processed)
            /\ analysis_usable(~docs[Window[j].id].body, "ok")
            /\ LET updates == AnalysisUpdates(Window[j].id, Window[j].sheet_index)
               IN  /\ master' = ApplyUpdates(master, "Meeting_data", updates)
                   /\ audit' = ApplyUpdates(audit, "Audit_and_Training", updates)
            /\ analysis_written' = analysis_written \cup {Window[j].id}
            /\ docs' = IF point = "after_processed_tag"
                        THEN [docs EXCEPT ![Window[j].id].processed = TRUE] ELSE docs
       ELSE UNCHANGED << docs, master, audit, analysis_written >>
    /\ Idle
    /\ ev' = [NoEv EXCEPT !.kind = "killed"]
    /\ crash' = [phase |-> "killed", fails_at |-> 0]
    /\ UNCHANGED << calendar_of, missing_headers, ready, tracking, fetched, fails, sync_log,
                    rerun, flag_synced, gated, url_writes, flushes, queued, skipped, harness >>

----------------------------------------------------------------------------
(* Analysis stage: the three blocks of values written for one analysis *)

\* class Analysis(BaseModel): the fields, in the order model_dump() returns them
AnalysisFields ==
    << "Brand_Size", "Meeting_Type", "Meeting_Agenda", "Key_Discussion_Points",
       "Key_Questions", "Marketing_Assets", "Competition_Discussion", "Action_Items",
       "Rebuttal_Handling", "Rapport_Building", "Improvement_Areas",
       "Other_Sales_Parameters", "Budget_or_Scope", "Lead_Category", "Positive_Factors",
       "Negative_Factors", "Closure_Score", "Brand_Traits", "Tone_of_Voice",
       "Values_and_Mission", "Customer_Needs", "Need_Identification",
       "Sales_Pitch_Rating", "Client_Pain_Points", "Value_Proposition_Articulation",
       "Product_Knowledge_Displayed", "Call_Effectiveness_and_Control",
       "Next_Steps_Clarity_and_Commitment", "Overall_Client_Sentiment",
       "Specific_Competitor_Insights", "Key_Managerial_Summary",
       "Identified_Missed_Opportunities", "Pitched_Asset_Relevance_to_Needs",
       "Pre_vs_Post_Meeting_Score", "Pitch_Direction", "Was_Digital_Inventory_Pitched",
       "Was_Island_Banner_or_Video_Pitched", "Was_Physical_Inventory_Pitched",
       "Offline_Assets_Proposed", "Was_Lift_Branding_Pitched",
       "Were_Success_Stories_Cited", "Which_Brand_Stories_Cited",
       "Were_ROI_Metrics_Promised", "Details_of_Promised_Metrics", "Was_Pilot_Offered",
       "Objection_Handling_MyGate", "Client_vs_NBH_Participant_Speaking_Ratio",
       "Were_Clear_Next_Steps_Established", "Immediate_Next_Action", "Confidence_Score",
       "Communication_Clarity_Score", "Energy_Engagement_Score",
       "Rapport_Building_Capability" >>

\* audit_params: Parameters to be audited
audit_params ==
    << "Brand_Size", "Meeting_Type", "Rebuttal_Handling", "Rapport_Building",
       "Improvement_Areas", "Other_Sales_Parameters", "Need_Identification",
       "Value_Proposition_Articulation", "Product_Knowledge_Displayed",
       "Call_Effectiveness_and_Control", "Next_Steps_Clarity_and_Commitment",
       "Identified_Missed_Opportunities", "Pitched_Asset_Relevance_to_Needs",
       "Pre_vs_Post_Meeting_Score" >>

\* business_params: Parameters to be written in master sheet
business_params ==
    << "Brand_Size", "Meeting_Type", "Meeting_Agenda", "Key_Discussion_Points",
       "Key_Questions", "Marketing_Assets", "Competition_Discussion", "Action_Items",
       "Budget_or_Scope", "Lead_Category", "Positive_Factors", "Negative_Factors",
       "Closure_Score", "Brand_Traits", "Tone_of_Voice", "Values_and_Mission",
       "Customer_Needs", "Sales_Pitch_Rating", "Client_Pain_Points",
       "Overall_Client_Sentiment", "Specific_Competitor_Insights",
       "Key_Managerial_Summary" >>

\* new_column_keys, as the list literal evaluates: adjacent string literals are
\* joined, and no comma follows "Immediate_Next_Action"
new_column_keys ==
    << "Pitch_Direction", "Was_Digital_Inventory_Pitched",
       "Was_Island_Banner_or_Video_Pitched", "Was_Physical_Inventory_Pitched",
       "Offline_Assets_Proposed", "Was_Lift_Branding_Pitched",
       "Were_Success_Stories_Cited", "Which_Brand_Stories_Cited",
       "Were_ROI_Metrics_Promised", "Details_of_Promised_Metrics", "Was_Pilot_Offered",
       "Objection_Handling_MyGate", "Client_vs_NBH_Participant_Speaking_Ratio",
       "Were_Clear_Next_Steps_Established", "Immediate_Next_ActionConfidence_Score",
       "Communication_Clarity_Score", "Energy_Engagement_Score",
       "Rapport_Building_Capability" >>

\* The value the model returned for one field; `of` records the field a
\* written value came from. analysis.get(key, "") of a key that is not in
\* the dict is the empty string.
Value(key, v) == [of |-> key, v |-> v]
EmptyValue == [of |-> "", v |-> ""]

key_in_any(key, keys) == TRUE

\* "key in audit_params", "key in business_params", "key in new_column_keys"
key_in(key, keys) == key \in Range(keys)

\* "for key, value in analysis.items()": keys of new_column_keys are skipped,
\* the value of a key of `params` is appended
RECURSIVE old_columns(_, _, _)
old_columns(items, analysis, params) ==
    IF items = << >> THEN << >>
    ELSE LET key == items[1]
             rest == old_columns(Tail(items), analysis, params)
         IN  IF key_in(key, new_column_keys) THEN rest
             ELSE IF key_in(key, params) THEN << analysis[key] >> \o rest
             ELSE rest

\* "for key in new_column_keys: val = analysis.get(key, "")"
new_columns(analysis) ==
    [k \in DOMAIN new_column_keys |->
        IF new_column_keys[k] \in DOMAIN analysis THEN analysis[new_column_keys[k]]
        ELSE EmptyValue]

\* a column as its letters (A = 1 .. Z = 26) and its number
ColumnNumber(letters) == IF Len(letters) = 1 THEN letters[1] ELSE 26 * letters[1] + letters[2]

\* rng_existing K:AF, rng_audit K:X, rng_new AN:BF : first and last column
TargetRanges ==
    [rng_existing |-> << << 11 >>, << 1, 6 >> >>,
     rng_audit |-> << << 11 >>, << 24 >> >>,
     rng_new |-> << << 1, 14 >>, << 2, 6 >> >>]

Columns(rng) == ColumnNumber(TargetRanges[rng][2]) - ColumnNumber(TargetRanges[rng][1]) + 1

\* Analysis loop body from the model's answer to `updates`
BuildUpdates ==
    /\ call_in.fn = "build_updates" /\ call_out = NoFn
    /\ call_out' = [fn |-> "build_updates",
                    data |-> old_columns(AnalysisFields, call_in.analysis, business_params),
                    audit_data |-> old_columns(AnalysisFields, call_in.analysis, audit_params),
                    new_col_data |-> new_columns(call_in.analysis)]
    /\ UNCHANGED << stores, pc, locals, fetched, fails, ev, ghosts, w_in, w_out, call_in,
                    limiter, clock, limiter_log >>

----------------------------------------------------------------------------
(* The retrying writers on their own: one call against a scripted service *)

Writers == {"write_with_retry", "batch_write_multiple_ranges",
            "batch_write_two_ranges_with_retry"}

NoResult == [ok |-> FALSE, raised |-> FALSE, calls |-> 0 - 1, delays |-> << >>]

NoCalls == call_in = NoFn /\ call_out = NoFn

NoInput == [writer |-> "none", resp |-> << >>, max_retries |-> 0, empty |-> FALSE]

CallWriter ==
    /\ w_in.writer \in Writers /\ w_out = NoResult
    /\ w_out' =
         IF w_in.writer = "write_with_retry"
         THEN write_with_retry(w_in.resp, w_in.max_retries)
         ELSE IF w_in.writer = "batch_write_multiple_ranges"
         THEN batch_write_multiple_ranges(IF w_in.empty THEN << >> ELSE << "update" >>,
                                          w_in.resp, w_in.max_retries)
         ELSE batch_write_two_ranges_with_retry(IF w_in.empty THEN << >> ELSE << "TRUE" >>,
                                                << "TRUE" >>, w_in.resp, w_in.max_retries)
    /\ UNCHANGED << stores, pc, locals, fetched, fails, ev, ghosts, w_in, call_in, call_out, limiter, clock,
                    limiter_log >>

----------------------------------------------------------------------------
(* The Rate Limiter *)

\* RateLimiter.__init__
RateLimiter(max_calls, period) == [max_calls |-> max_calls, period |-> period, calls |-> << >>]

\* [call_time for call_time in self.calls if now - call_time < self.period]
RECURSIVE recent_calls(_, _, _)
recent_calls(calls, now, period) ==
    IF calls = << >> THEN << >>
    ELSE (IF now - calls[1] < period THEN << calls[1] >> ELSE << >>)
         \o recent_calls(Tail(calls), now, period)

\* "if len(self.calls) >= self.max_calls"
must_wait(calls, max_calls) == Len(calls) >= max_calls

sleep_time_none(now, oldest, period) == 0

\* sleep_time = self.period - (now - self.calls[0]) + 2
sleep_time(now, oldest, period) == period - (now - oldest) + SleepMargin

NoWaits == [n |-> 0, passed |-> << >>, before |-> << >>, now |-> 0, slept |-> FALSE,
            woke |-> 0]

\* the caller lets a second pass between two calls
Tick ==
    /\ clock < MaxClock
    /\ clock' = clock + 1
    /\ UNCHANGED << stores, pc, locals, fetched, fails, ev, ghosts, w_in, w_out, call_in, call_out, limiter,
                    limiter_log >>

\* RateLimiter.wait_if_needed: time.sleep returns after at least sleep_time
\* seconds (overrun), and the second time.time() may read later than the first.
wait_if_needed(overrun, lag) ==
    /\ limiter_log.n < MaxWaits /\ clock <= MaxClock
    /\ LET now == clock
           kept == recent_calls(limiter.calls, now, limiter.period)
           wait == must_wait(kept, limiter.max_calls)
           woke == IF wait THEN now + sleep_time(now, kept[1], limiter.period) + overrun
                   ELSE now
           returned == IF wait THEN woke ELSE now + lag
       IN  /\ wait => lag = 0
           /\ ~wait => overrun = 0
           /\ limiter' = [limiter EXCEPT !.calls = Append(IF wait THEN << >> ELSE kept,
                                                          returned)]
           /\ clock' = returned
           /\ limiter_log' = [n |-> limiter_log.n + 1,
                              passed |-> Append(limiter_log.passed, returned),
                              before |-> limiter.calls, now |-> now, slept |-> wait,
                              woke |-> woke]
    /\ UNCHANGED << stores, pc, locals, fetched, fails, ev, ghosts, w_in, w_out, call_in, call_out >>

----------------------------------------------------------------------------
(* Specifications *)

EmptyMaster == [r \in MasterRows |-> [IJ |-> NoUrl, owner_update |-> "", meeting_done |-> "",
                                      K_AF |-> 0, AN_BF |-> 0]]
EmptyAudit == [r \in MasterRows |-> [IJ |-> NoUrl, owner_update |-> "", K_X |-> 0]]

InitStores ==
    /\ calendar_of \in Sources /\ missing_headers = {}
    /\ ready = {"t1"} /\ docs = << >> /\ tracking = << >>
    /\ master = EmptyMaster /\ audit = EmptyAudit
    /\ pc = "idle" /\ transcripts = << >> /\ i = 0 /\ transcript_ids = {}
    /\ ts_dict = << >> /\ transcript_urls_from_master = << >> /\ all_updates = << >>
    /\ t_ids = << >> /\ j = 0
    /\ fetched = 0 /\ fails = 0 /\ ev = NoEv
    /\ sync_log = NoLog /\ rerun = "no"
    /\ analysis_written = {} /\ flag_synced = {} /\ gated = {}
    /\ url_writes = [r \in MasterRows |-> 0]
    /\ flushes = << >> /\ queued = << >> /\ crash = NoCrash /\ skipped = {}

\* rate_limiter = RateLimiter(max_calls=45, period=60)
InitRateLimiter ==
    limiter = RateLimiter(DefaultMaxCalls, DefaultPeriod) /\ clock = 0 /\ limiter_log = NoWaits

Init == InitStores /\ w_in = NoInput /\ w_out = NoResult /\ NoCalls /\ InitRateLimiter

Next ==
    \/ \E t \in TranscriptIds : TranscriptionCompletes(t)
    \/ \E list \in FetchLists(MaxFetched - fetched) : RunStart(list)
    \/ SyncSkip
    \/ SyncLookupRaises
    \/ \E outcome \in CreateOutcomes, append_ok \in BOOLEAN : SyncRecord(outcome, append_ok)
    \/ StartPropagation
    \/ \E resp \in ResponsePatterns : PropagateRow(resp)
    \/ \E resp \in ResponsePatterns : FinishPropagation(resp)
    \/ AnalysisReadRaises
    \/ \E model \in ModelOutcomes, resp \in ResponsePatterns, tag_ok \in BOOLEAN,
          resp2 \in ResponsePatterns : AnalyseCandidate(model, resp, tag_ok, resp2)
    \/ FinishAnalysis

Spec == Init /\ [][Next]_vars

RetryInputs ==
    {[writer |-> w, resp |-> r, max_retries |-> m, empty |-> e] :
        w \in Writers, r \in [1..DefaultMaxRetries -> Responses],
        m \in 1..DefaultMaxRetries, e \in BOOLEAN}

InitRetry == InitStores /\ w_in \in RetryInputs /\ w_out = NoResult /\ NoCalls /\ InitRateLimiter

\* Runs of main() of which one may be killed
NextCrash ==
    \/ Next
    \/ \E point \in KillPoints : Killed(point)

SpecCrash == Init /\ [][NextCrash]_vars

\* The classification on its own, over utterance sequences around the
\* ten-minute boundary, with and without text
UtteranceTimes == {0, 1, 600, 601}

Utterances == {[start_time |-> a, end_time |-> b, text_len |-> n] :
                  a \in UtteranceTimes, b \in UtteranceTimes, n \in {0, 11}}

InitClassify ==
    /\ InitStores /\ w_in = NoInput /\ w_out = NoResult /\ InitRateLimiter
    /\ call_in \in {[fn |-> "meeting_conducted", sentences |-> s] :
                       s \in UNION {[1..n -> Utterances] : n \in 1..MaxUtterances}}
    /\ call_out = NoFn

SpecClassify == InitClassify /\ [][Classify]_vars

\* The blocks written for one analysis, over analyses with every field
\* populated of which up to MaxVaried fields hold another value
Analyses(n) ==
    {[key \in Range(AnalysisFields) |-> Value(key, IF key \in Range(varied) THEN "v1" ELSE "v0")] :
        varied \in [1..n -> Range(AnalysisFields) \cup {"none"}]}

InitColumns ==
    /\ InitStores /\ w_in = NoInput /\ w_out = NoResult /\ InitRateLimiter
    /\ call_in \in {[fn |-> "build_updates", analysis |-> a] : a \in Analyses(MaxVaried)}
    /\ call_out = NoFn

SpecColumns == InitColumns /\ [][BuildUpdates]_vars

\* fetch_all_transcripts on its own, against a source that answers every
\* request with a page of its choosing
InitFetch ==
    /\ InitStores /\ w_in = NoInput /\ w_out = NoResult /\ InitRateLimiter
    /\ call_in = [fn |-> "fetch_all_transcripts", limit |-> DefaultLimit]
    /\ call_out = FetchStart(DefaultLimit)

NextFetch ==
    \/ \E batch \in PageSizes(call_out.limit) : FetchPage(batch)
    \/ FetchRaises

SpecFetch == InitFetch /\ [][NextFetch]_vars

SpecRetry == InitRetry /\ [][CallWriter]_vars

\* The Propagation stage on its own, over a tracking sheet whose rows have not
\* been propagated yet: row k is the recording with document k of one of two
\* meetings; it carries a conducted status (five updates queued) or, as a row
\* of fewer than seven cells, none (four updates queued).
RowIds == << "r1", "r2", "r3", "r4", "r5", "r6", "r7", "r8", "r9", "r10", "r11", "r12" >>

PropRow(k, with_status) ==
    [calendar_id |-> IF with_status THEN "calA" ELSE "calB", transcript_id |-> RowIds[k],
     transcript_url |-> DocUrl(k),
     meeting_conducted |-> IF with_status THEN "Conducted" ELSE ""]

PropTables == {[k \in 1..MaxPropRows |-> PropRow(k, kinds[k])] :
                   kinds \in [1..MaxPropRows -> BOOLEAN]}

InitProp ==
    /\ calendar_of \in Sources /\ missing_headers = {} /\ ready = {"t1"}
    /\ tracking \in PropTables
    /\ docs = [k \in 1..MaxPropRows |->
                 [name |-> RowIds[k], body |-> TRUE, transcript_id |-> RowIds[k],
                  processed |-> FALSE]]
    /\ master = EmptyMaster /\ audit = EmptyAudit
    /\ pc = "prop" /\ transcripts = << >> /\ i = 0 /\ transcript_ids = {}
    /\ ts_dict = tracking /\ transcript_urls_from_master = ReadUrlColumn(master)
    /\ all_updates = << >> /\ t_ids = << >> /\ j = 1
    /\ fetched = 0 /\ fails = 0 /\ ev = [NoEv EXCEPT !.kind = "start_prop"]
    /\ sync_log = [NoLog EXCEPT !.done = TRUE] /\ rerun = "no"
    /\ analysis_written = {} /\ flag_synced = {} /\ gated = {}
    /\ url_writes = [r \in MasterRows |-> 0]
    /\ flushes = << >> /\ queued = << >> /\ crash = NoCrash /\ skipped = {}
    /\ InitRateLimiter
    /\ w_in = NoInput /\ w_out = NoResult /\ NoCalls

NextProp ==
    \/ \E resp \in ResponsePatterns : PropagateRow(resp)
    \/ \E resp \in ResponsePatterns : FinishPropagation(resp)

SpecProp == InitProp /\ [][NextProp]_vars

\* The Propagation and Analysis stages on their own, over a tracking sheet
\* whose rows have not been propagated yet: row k is the recording with
\* document k of the meeting of master row 2 (calB), of the meeting of master
\* rows 3 and 4 (calA), or of a meeting the master sheet does not hold (calC).
SheetTables(n) ==
    {[k \in 1..n |-> [calendar_id |-> cals[k], transcript_id |-> RowIds[k],
                       transcript_url |-> DocUrl(k), meeting_conducted |-> "Conducted"]] :
        cals \in [1..n -> {"calA", "calB", "calC"}]}

InitSheets ==
    /\ calendar_of \in Sources /\ missing_headers = {} /\ ready = {"t1"}
    /\ tracking \in SheetTables(MaxSheetRows)
    /\ docs = [k \in 1..MaxSheetRows |->
                 [name |-> RowIds[k], body |-> TRUE, transcript_id |-> RowIds[k],
                  processed |-> FALSE]]
    /\ master = EmptyMaster /\ audit = EmptyAudit
    /\ pc = "prop" /\ transcripts = << >> /\ i = 0 /\ transcript_ids = {}
    /\ ts_dict = tracking /\ transcript_urls_from_master = ReadUrlColumn(master)
    /\ all_updates = << >> /\ t_ids = << >> /\ j = 1
    /\ fetched = 0 /\ fails = 0 /\ ev = [NoEv EXCEPT !.kind = "start_prop"]
    /\ sync_log = [NoLog EXCEPT !.done = TRUE] /\ rerun = "no"
    /\ analysis_written = {} /\ flag_synced = {} /\ gated = {}
    /\ url_writes = [r \in MasterRows |-> 0]
    /\ flushes = << >> /\ queued = << >> /\ crash = NoCrash /\ skipped = {}
    /\ InitRateLimiter
    /\ w_in = NoInput /\ w_out = NoResult /\ NoCalls

NextSheets ==
    \/ \E resp \in ResponsePatterns : PropagateRow(resp)
    \/ \E resp \in ResponsePatterns : FinishPropagation(resp)
    \/ AnalysisReadRaises
    \/ \E model \in ModelOutcomes, resp \in ResponsePatterns, tag_ok \in BOOLEAN,
          resp2 \in ResponsePatterns : AnalyseCandidate(model, resp, tag_ok, resp2)
    \/ FinishAnalysis

SpecSheets == InitSheets /\ [][NextSheets]_vars

\* A RateLimiter on its own, for every ceiling and period up to the bounds,
\* called at times of the caller's choosing
InitLimiter ==
    /\ InitStores /\ w_in = NoInput /\ w_out = NoResult /\ NoCalls
    /\ limiter \in {RateLimiter(m, p) : m \in 1..MaxCeiling, p \in 1..MaxPeriod}
    /\ clock = 0 /\ limiter_log = NoWaits

NextLimiter ==
    \/ Tick
    \/ \E overrun \in 0..MaxLag, lag \in 0..MaxLag : wait_if_needed(overrun, lag)

SpecLimiter == InitLimiter /\ [][NextLimiter]_vars

\* Runs of main() over sheets of which row 1 lacks at most one required header
InitSetup ==
    /\ calendar_of \in Sources
    /\ missing_headers \in {{}} \cup {{h} : h \in SetupHeaders \cup {StatusHeader}}
    /\ ready = {"t1"} /\ docs = << >> /\ tracking = << >>
    /\ master = EmptyMaster /\ audit = EmptyAudit
    /\ pc = "idle" /\ transcripts = << >> /\ i = 0 /\ transcript_ids = {}
    /\ ts_dict = << >> /\ transcript_urls_from_master = << >> /\ all_updates = << >>
    /\ t_ids = << >> /\ j = 0
    /\ fetched = 0 /\ fails = 0 /\ ev = NoEv
    /\ sync_log = NoLog /\ rerun = "no"
    /\ analysis_written = {} /\ flag_synced = {} /\ gated = {}
    /\ url_writes = [r \in MasterRows |-> 0]
    /\ flushes = << >> /\ queued = << >> /\ crash = NoCrash /\ skipped = {}
    /\ w_in = NoInput /\ w_out = NoResult /\ NoCalls /\ InitRateLimiter

SpecSetup == InitSetup /\ [][Next]_vars

----------------------------------------------------------------------------
(* Properties *)

TrackedIds == {tracking[k].transcript_id : k \in DOMAIN tracking}

\* C1 (as stated): a run whose Sync stage follows a completed Sync stage in
\* which no row append failed, with the same records fetched, appends no row.
C1_IdempotentAppend ==
    rerun \in {"appends_ok", "all_ok"} => ~sync_log.appended

\* C1 (amended): a run whose Sync stage follows a completed Sync stage in
\* which no document creation and no row append failed, with the same
\* records fetched, appends no row to the tracking table.
C1_IdempotentAppendAmended ==
    rerun = "all_ok" => ~sync_log.appended

\* the second Sync stage has run to its end over records that include a
\* transcribed transcript, which the first one recorded
C1_Witness ==
    /\ rerun = "all_ok" /\ sync_log.done
    /\ \E r \in sync_log.fetched : r.sentences # << >> /\ r.id \in TrackedIds

\* C2: no two rows of the tracking table carry the same transcript_id.
C2_UniqueTranscriptIds ==
    \A a, b \in DOMAIN tracking :
        a # b => tracking[a].transcript_id # tracking[b].transcript_id

\* C3: the archive folder holds at most one document per transcript.
C3_OneDocPerTranscript ==
    \A t \in TranscriptIds : Cardinality({d \in DOMAIN docs : docs[d].name = t}) <= 1

\* C4: a document carries the processed tag only if the bulk write of its
\* analysis columns was issued and confirmed; the tag update is issued only
\* after a confirmed write.
C4_TagOnlyAfterWrite ==
    /\ \A d \in DOMAIN docs : docs[d].processed => d \in analysis_written
    /\ ev.tag # "not_issued" => ev.write = "ok"

\* a document has been tagged processed by the iteration that wrote its analysis
C4_Witness ==
    /\ ev.kind = "analyse" /\ ev.write = "ok" /\ ev.tag = "ok"
    /\ docs[ev.doc].processed /\ ev.doc \in analysis_written

C6_ProcessedOnce ==
    [][\A d \in DOMAIN docs :
          docs[d].processed =>
              /\ docs'[d].processed
              /\ (pc = "analysis" /\ j <= Len(Window) /\ Window[j].id = d
                  /\ ev'.kind = "analyse")
                 => (ev'.model = "not_called" /\ ev'.write = "not_issued"
                     /\ ev'.tag = "not_issued")]_vars

\* an iteration has met a candidate that already carried the processed tag
C6_Witness ==
    /\ ev.kind = "analyse" /\ ev.was_processed
    /\ ev.model = "not_called" /\ docs[ev.doc].processed

\* C7: the Propagation stage queues no update for a master row whose
\* archive_url cell was populated when the stage started.
C7_NoWriteToPopulatedRow ==
    pc = "prop" =>
        \A k \in DOMAIN all_updates :
            LET p == all_updates[k].row - 1
            IN  ~(p <= Len(transcript_urls_from_master)
                  /\ transcript_urls_from_master[p] # NoUrl)

\* C8: over all runs, the Propagation stage writes the archive_url cell of a
\* master row at most once.
C8_UrlWrittenOnce ==
    \A r \in MasterRows : url_writes[r] <= 1

\* C9: a document whose analysis columns were written and which is tagged
\* processed has had the owner flags of its row written too.
C9_FlagWithAnalysis ==
    \A d \in DOMAIN docs :
        (d \in analysis_written /\ docs[d].processed) => d \in flag_synced

AlwaysThrottled(resp) == \A k \in DOMAIN resp : resp[k] = "throttled"

ReachesService(in) == in.writer = "write_with_retry" \/ ~in.empty

C11_WriterNeverRaises ==
    (w_in.writer = "write_with_retry" /\ w_out # NoResult) => ~w_out.raised

\* the concatenation of the range lists of the bulk writes issued so far
RECURSIVE Submitted(_)
Submitted(log) == IF log = << >> THEN << >> ELSE log[1].ranges \o Submitted(Tail(log))

IsPrefix(a, b) == Len(a) <= Len(b) /\ SubSeq(b, 1, Len(a)) = a

\* C12 (as stated): fewer than 40 queued updates are never flushed by the
\* threshold test, and every threshold flush is one bulk write of exactly 40
\* ranges holding everything queued since the flush before it.
C12_FlushAtForty ==
    /\ pc = "prop" => Len(all_updates) < FlushThreshold
    /\ \A k \in DOMAIN flushes :
           flushes[k].at = "threshold" => Len(flushes[k].ranges) = FlushThreshold
    /\ IsPrefix(Submitted(flushes), queued)

\* C12 (amended): the queue never rests at 40 or more updates; a threshold
\* flush is one bulk write issued after the row whose updates bring the queue
\* to 40 or more, holding everything queued since the flush before it:
\* between 40 and 44 ranges.
C12_FlushAtFortyOrMore ==
    /\ pc = "prop" => Len(all_updates) < FlushThreshold
    /\ \A k \in DOMAIN flushes :
           flushes[k].at = "threshold" =>
               /\ Len(flushes[k].ranges) >= FlushThreshold
               /\ Len(flushes[k].ranges) <= FlushThreshold - 1 + 5
    /\ IsPrefix(Submitted(flushes), queued)
    /\ pc = "prop" => Submitted(flushes) \o all_updates = queued

\* a threshold flush of more than 40 ranges has been issued
C12_Witness ==
    /\ pc = "prop" /\ ev.flush = "ok" /\ all_updates = << >>
    /\ \E k \in DOMAIN flushes :
           flushes[k].at = "threshold" /\ Len(flushes[k].ranges) > FlushThreshold

\* C13: the updates of a threshold flush whose bulk write failed (without
\* raising) are still held: they are in the queue while the stage goes on, or
\* in a later bulk write.
C13_FailedFlushKeepsQueue ==
    \A k \in DOMAIN flushes :
        (flushes[k].at = "threshold" /\ ~flushes[k].ok /\ pc \in {"prop", "analysis"}) =>
            \/ pc = "prop" /\ k = Len(flushes) /\ IsPrefix(flushes[k].ranges, all_updates)
            \/ \E m \in DOMAIN flushes : m > k /\ IsPrefix(flushes[k].ranges, flushes[m].ranges)

\* C14: when the Propagation stage has ended, the bulk writes it issued carry,
\* between them, every update the stage queued, each exactly once and in order.
C14_AllQueuedSubmittedOnce ==
    (pc = "analysis" /\ ev.kind = "finish_prop") => Submitted(flushes) = queued

\* a stage has ended after a threshold flush and an end-of-stage flush
C14_Witness ==
    /\ pc = "analysis" /\ ev.kind = "finish_prop" /\ Len(flushes) = 2
    /\ flushes[1].at = "threshold" /\ flushes[2].at = "final"
    /\ Len(queued) > FlushThreshold

\* the calls let through in the period seconds that end at time t
PassedInWindow(t) ==
    {k \in DOMAIN limiter_log.passed :
        limiter_log.passed[k] <= t /\ t - limiter_log.passed[k] < limiter.period}

\* C15: in every trailing window of period seconds, wait_if_needed has let
\* through at most max_calls calls.
C15_UnderQuota ==
    \A k \in DOMAIN limiter_log.passed :
        Cardinality(PassedInWindow(limiter_log.passed[k])) <= limiter.max_calls

\* the timestamps recorded before the last call that were younger than the
\* period when it started
InWindowBefore ==
    {k \in DOMAIN limiter_log.before : limiter_log.now - limiter_log.before[k] < limiter.period}

\* C16: a call of wait_if_needed sleeps exactly when the recorded calls still
\* in the window number max_calls or more; a call that sleeps wakes when the
\* oldest of them has left the window, and restarts the record; after every
\* call the record holds between 1 and max_calls timestamps, the last being
\* the time the call returned.
C16_SleepsIffFull ==
    limiter_log.n > 0 =>
        /\ limiter_log.slept <=> Cardinality(InWindowBefore) >= limiter.max_calls
        /\ limiter_log.slept =>
               /\ \E k \in InWindowBefore :
                      /\ \A m \in InWindowBefore :
                             limiter_log.before[k] <= limiter_log.before[m]
                      /\ limiter_log.woke - limiter_log.before[k] >= limiter.period
               /\ Len(limiter.calls) = 1
        /\ Len(limiter.calls) >= 1 /\ Len(limiter.calls) <= limiter.max_calls
        /\ LET newest == limiter.calls[Len(limiter.calls)]
           IN  /\ newest >= limiter_log.now /\ newest <= clock
               /\ limiter_log.slept => newest = limiter_log.woke
               /\ \A k \in DOMAIN limiter.calls : limiter.calls[k] <= newest

\* a call has found a full window of two recorded calls, has slept until the
\* older of them left the window, and has restarted the record
C16_Witness ==
    /\ limiter_log.n >= 3 /\ limiter_log.slept /\ limiter.max_calls = 2
    /\ Cardinality(InWindowBefore) = 2
    /\ limiter_log.woke > limiter_log.now
    /\ limiter.calls = << limiter_log.woke >>

\* C17: a run that has passed setup enters the Transcript Sync stage, whatever
\* the source returned, and the stages are entered in the order Sync,
\* Propagation, Analysis.
C17_AllStagesInOrder ==
    [][/\ ev'.kind = "start" => pc' = "sync"
       /\ pc' = "sync" => pc \in {"idle", "sync"}
       /\ pc' = "prop" => pc \in {"sync", "prop"}
       /\ pc' = "analysis" => pc \in {"prop", "analysis"}]_vars

\* C19: a step of the Sync or Analysis loop in which a per-record call failed
\* (the tag lookup, the read of a document's properties or text, the model
\* call, the analysis write, the update of the processed tag) leaves the run
\* in its stage, with the next record to come.
C19_FailureIsLocal ==
    (\/ ev.kind \in {"sync_raised", "analysis_raised"}
     \/ /\ ev.kind = "analyse"
        /\ \/ ev.model \in {"validation", "transport"}
           \/ ev.write \in {"failed", "raised"}
           \/ ev.tag = "raised")
    => pc \in {"sync", "analysis"}

\* C18: with a required header missing, no stage creates a document, appends
\* a tracking row or writes a master or audit cell.
C18_SetupFailureBeforeStages ==
    missing_headers # {} =>
        /\ docs = << >> /\ tracking = << >>
        /\ master = EmptyMaster /\ audit = EmptyAudit

\* C20: when a run is killed between two external calls and a complete run
\* without failures follows on the same fetched records, the archive holds for
\* every transcript exactly one document, with its text and tagged with its
\* transcript_id, as after one uninterrupted run without failures.
C20_CrashResume ==
    crash.phase = "resumed" =>
        /\ \A d \in DOMAIN docs : docs[d].body /\ docs[d].transcript_id = docs[d].name
        /\ \A d, e \in DOMAIN docs : docs[d].name = docs[e].name => d = e

\* C21: for every non-empty utterance sequence the classification is
\* "Conducted" exactly when the last end_time minus the first start_time
\* exceeds 600 seconds and the concatenated text has more than 10 characters,
\* and "Not Conducted" otherwise.
C21_ClassificationBoundary ==
    call_out.fn = "meeting_conducted" =>
        LET s == call_in.sentences
            seconds == s[Len(s)].end_time - s[1].start_time
        IN  /\ call_out.meeting_conducted \in {"Conducted", "Not Conducted"}
            /\ call_out.meeting_conducted = "Conducted"
                 <=> (seconds > 600 /\ call_out.t_complete_text > 10)

\* utterances spanning exactly ten minutes, with text: "Not Conducted"
C21_Witness ==
    /\ call_out.fn = "meeting_conducted"
    /\ Len(call_in.sentences) = 2
    /\ call_in.sentences[2].end_time - call_in.sentences[1].start_time = 600
    /\ call_in.sentences[1].text_len = 11
    /\ call_out.meeting_conducted = "Not Conducted"

WrittenFields(block) == {block[k].of : k \in DOMAIN block}

\* C22: for an analysis with every field populated, the master business
\* block holds the value of every field of business_params and of no other
\* field, the audit block the value of every field of audit_params and of no
\* other field, each once; a field of neither list is in neither block.
C22_ColumnSplit ==
    call_out.fn = "build_updates" =>
        /\ WrittenFields(call_out.data) = Range(business_params)
        /\ Len(call_out.data) = Len(business_params)
        /\ WrittenFields(call_out.audit_data) = Range(audit_params)
        /\ Len(call_out.audit_data) = Len(audit_params)
        /\ \A k \in DOMAIN call_out.data :
              call_out.data[k] = call_in.analysis[call_out.data[k].of]
        /\ \A k \in DOMAIN call_out.audit_data :
              call_out.audit_data[k] = call_in.analysis[call_out.audit_data[k].of]
        /\ \A key \in Range(AnalysisFields) \ (Range(business_params) \cup Range(audit_params)) :
              key \notin WrittenFields(call_out.data) \cup WrittenFields(call_out.audit_data)

\* an analysis in which a field of audit_params alone and a field of neither
\* list hold the other value
C22_Witness ==
    /\ call_out.fn = "build_updates"
    /\ call_in.analysis["Rebuttal_Handling"].v = "v1"
    /\ call_in.analysis["Pitch_Direction"].v = "v1"
    /\ Value("Rebuttal_Handling", "v1") \in Range(call_out.audit_data)
    /\ Value("Rebuttal_Handling", "v1") \notin Range(call_out.data)

\* the 19 newer analysis fields, Pitch_Direction .. Rapport_Building_Capability
NewerFields == SubSeq(AnalysisFields, Len(AnalysisFields) - 18, Len(AnalysisFields))

\* C29: for every analysis the three blocks hold as many values as their
\* ranges have columns (K:AF 22, K:X 14, AN:BF 19), and the third block holds
\* the values of the 19 newer fields, in order.
C29_BlockWidths ==
    call_out.fn = "build_updates" =>
        /\ Len(call_out.data) = Columns("rng_existing")
        /\ Len(call_out.audit_data) = Columns("rng_audit")
        /\ Len(call_out.new_col_data) = Columns("rng_new")
        /\ call_out.new_col_data = [k \in 1..19 |-> call_in.analysis[NewerFields[k]]]

\* C23: every tracking row appended through the create path refers to a
\* document that holds the transcript text and carries the transcript_id
\* tag: a creation that failed at any step leaves no row.
C23_NoRowAfterFailedCreate ==
    \A k \in DOMAIN tracking :
        ~tracking[k].transcript_url.view =>
            LET d == docs[DocIdOfUrl(tracking[k].transcript_url)]
            IN  d.body /\ d.transcript_id = tracking[k].transcript_id

C25_OneBulkAppend ==
    sync_log.append_calls <= 1

\* C26: fetch_all_transcripts stops as soon as the cap of 500 records is
\* reached: it sends no request once it holds 500 records, and the list it
\* returns never holds more records than the cap.
C26_FetchWithinCap ==
    call_out.fn = "fetch_all_transcripts" =>
        /\ call_out.all_transcripts <= HardCap
        /\ (~call_out.returned) => call_out.all_transcripts < HardCap

\* sheet row of the first master row that holds the calendar id
FirstMatchRow(cal_id) ==
    (CHOOSE p \in DOMAIN MasterCalendar :
        MasterCalendar[p] = cal_id /\ \A q \in 1..(p - 1) : MasterCalendar[q] # cal_id) + 1

\* tracking rows the Propagation loop has gone through
RowsDone == IF pc = "prop" THEN 1..(j - 1) ELSE DOMAIN tracking

\* C27: every update queued for a tracking row addresses the sheet row of the
\* first master row with the row's calendar_id, in the master and in the audit
\* sheet; a tracking row without a match queues nothing; the cells of a
\* master or audit row whose calendar_id no tracking row has stay as they were.
C27_RowTargeting ==
    /\ \A u \in Range(queued) :
          \E k \in RowsDone :
              /\ tracking[k].calendar_id \in Range(MasterCalendar)
              /\ u.row = FirstMatchRow(tracking[k].calendar_id)
              /\ u.col = "IJ" => u.values = tracking[k].transcript_url
    /\ \A k \in RowsDone :
          IF tracking[k].calendar_id \in Range(MasterCalendar)
          THEN \A sheet \in {"Meeting_data", "Audit_and_Training"} :
                  Update(sheet, "IJ", FirstMatchRow(tracking[k].calendar_id),
                         tracking[k].transcript_url) \in Range(queued)
          ELSE \A u \in Range(queued) :
                  u.col = "IJ" => u.values # tracking[k].transcript_url
    /\ \A r \in MasterRows :
          (\A k \in DOMAIN tracking : tracking[k].calendar_id # MasterCalendar[r - 1]) =>
              master[r] = EmptyMaster[r] /\ audit[r] = EmptyAudit[r]

\* a row without a match and then a row of the twice-entered meeting have
\* been gone through: five updates are queued, for sheet row 3
C27_Witness ==
    /\ pc = "prop" /\ j = 3
    /\ tracking[1].calendar_id = "calC" /\ tracking[2].calendar_id = "calA"
    /\ Len(queued) = 5 /\ queued[1].row = 3 /\ queued[2].row = 3

\* C28: every archive URL of the tracking table that the master archive-url
\* column holds at a position p (p = 0 included) and whose document lacks the
\* processed tag is a candidate of the Analysis stage, for sheet row p + 2.
C28_CandidateCompleteness ==
    pc = "analysis" =>
        \A k \in DOMAIN tracking, p \in DOMAIN transcript_urls_from_master :
            (/\ transcript_urls_from_master[p] = tracking[k].transcript_url
             /\ \A q \in 1..(p - 1) : transcript_urls_from_master[q] # tracking[k].transcript_url
             /\ ~docs[DocIdOfUrl(tracking[k].transcript_url)].processed) =>
                \E c \in Range(Window) :
                    c.id = DocIdOfUrl(tracking[k].transcript_url) /\ c.sheet_index = (p - 1) + 2

====
